---- MODULE Spec2Model ----
(***************************************************************************)
(* Model of the rpmrevmatch scripts.                                       *)
(*   graph.py         : config loader, RPM / RevMatch segmentation loop,   *)
(*                      segment plotting, legend construction, y limits.  *)
(*   innefficiency.py : theoretical RPM per sample, group by gear,         *)
(*                      per-gear fit-and-plot loop.                        *)
(* Three specifications share the variables:                              *)
(*   Spec       - graph.py lines 31..148 (read csv, loop, plot, legend)    *)
(*   SpecConfig - graph.py lines 6..28 and 159..165 (config, y limits)     *)
(*   SpecRatio  - innefficiency.py lines 30..53                            *)
(* Python indices are kept 0-based; Row(d, k) is d.iloc[k].                *)
(***************************************************************************)
EXTENDS Integers, Sequences, FiniteSets, TLC

VARIABLES pc, df, i, stdout,
          rpm_segments, revmatch_segments, rev_branch,
          lines, all_gears, legend_elements, gear_labels,
          config_file, min_rpm, max_rpm, ylim,
          actual, groups, plots, fits

gvars == <<rpm_segments, revmatch_segments, rev_branch,
           lines, all_gears, legend_elements, gear_labels>>
cvars == <<config_file, min_rpm, max_rpm, ylim>>
rvars == <<actual, groups, plots, fits>>
vars  == <<pc, df, i, stdout, gvars, cvars, rvars>>

\* Longest telemetry recording explored for graph.py.
MaxLen == 5

\* Python's None; an integer v held by a variable that may be None is <<v>>.
None == <<>>

\* The RevMatch sentinel "not applicable".
NoRevMatch == -1

Last(s) == s[Len(s)]

\* sorted(set(...)): the elements of a finite set of integers, ascending.
Sorted(S) ==
    [j \in 1..Cardinality(S) |->
        CHOOSE x \in S : Cardinality({y \in S : y < x}) = j - 1]

(***************************************************************************)
(* Telemetry input of graph.py.  A sample is (CurrentGear, RPM, RevMatch); *)
(* the Time column is strictly increasing.                                 *)
(***************************************************************************)
SampleValues ==
    { <<1,  900, NoRevMatch>>, <<1, 1000, 5000>>,
      <<2, 3000, NoRevMatch>>, <<2, 3100, 5000>>, <<2, 3200, 5200>>,
      <<3, 4000, NoRevMatch>>, <<3, 4100, 6000>> }

MkFrame(s) ==
    [k \in 1..Len(s) |->
        [Time |-> 10 * k, CurrentGear |-> s[k][1], RPM |-> s[k][2],
         RevMatch |-> s[k][3]]]

SeqsUpTo(S, n) == UNION {[1..m -> S] : m \in 0..n}

Recordings == {MkFrame(s) : s \in SeqsUpTo(SampleValues, MaxLen)}

Row(d, k) == d[k + 1]

(***************************************************************************)
(* graph.py: the segmentation loop body.                                   *)
(***************************************************************************)
NewRpmSegment(row) ==
    [time |-> <<row.Time>>, rpm |-> <<row.RPM>>, gear |-> row.CurrentGear]

\* Variant of the definition below: a gear change re-seeds the open segment instead of appending a new one.
RpmStepOverwrite(segs, d, k) ==
    IF k = 0
    THEN Append(segs, NewRpmSegment(Row(d, k)))
    ELSE IF Row(d, k).CurrentGear = Row(d, k - 1).CurrentGear
         THEN [segs EXCEPT ![Len(segs)].time = Append(@, Row(d, k).Time),
                           ![Len(segs)].rpm  = Append(@, Row(d, k).RPM)]
         ELSE [segs EXCEPT ![Len(segs)] = NewRpmSegment(Row(d, k))]

\* Variant of the definition below: only an upshift opens a new segment.
RpmStepUpshiftOnly(segs, d, k) ==
    IF k = 0
    THEN Append(segs, NewRpmSegment(Row(d, k)))
    ELSE IF Row(d, k).CurrentGear <= Row(d, k - 1).CurrentGear
         THEN [segs EXCEPT ![Len(segs)].time = Append(@, Row(d, k).Time),
                           ![Len(segs)].rpm  = Append(@, Row(d, k).RPM)]
         ELSE Append(segs, NewRpmSegment(Row(d, k)))

\* Lines 60-80.
RpmStep(segs, d, k) ==
    IF k = 0
    THEN Append(segs, NewRpmSegment(Row(d, k)))
    ELSE IF Row(d, k).CurrentGear = Row(d, k - 1).CurrentGear
         THEN [segs EXCEPT ![Len(segs)].time = Append(@, Row(d, k).Time),
                           ![Len(segs)].rpm  = Append(@, Row(d, k).RPM)]
         ELSE Append(segs, NewRpmSegment(Row(d, k)))

\* Variant of the definition below: the gear test admits first gear.
ValidAnyGear(row) == row.CurrentGear >= 1 /\ row.RevMatch # NoRevMatch

\* Line 83.
Valid(row) == row.CurrentGear > 1 /\ row.RevMatch # NoRevMatch

NewRevSegment(row) ==
    [time |-> <<row.Time>>, revmatch |-> <<row.RevMatch>>,
     gear |-> row.CurrentGear - 1]

\* Variant of the definition below: the lookback ignores the previous sample's sentinel.
NeedNewRevNoSentinel(segs, d, k) ==
    \/ segs = <<>>
    \/ k > 0 /\ Row(d, k - 1).CurrentGear # Row(d, k).CurrentGear

\* Variant of the definition below: the lookback ignores the gear change.
NeedNewRevNoGear(segs, d, k) ==
    \/ segs = <<>>
    \/ k > 0 /\ Row(d, k - 1).RevMatch = NoRevMatch

\* Line 87.
NeedNewRev(segs, d, k) ==
    \/ segs = <<>>
    \/ k > 0 /\ (\/ Row(d, k - 1).CurrentGear # Row(d, k).CurrentGear
                 \/ Row(d, k - 1).RevMatch = NoRevMatch)

\* Which branch of lines 83-103 sample k takes.
RevBranch(segs, d, k) ==
    IF ~Valid(Row(d, k)) THEN "skip"
    ELSE IF NeedNewRev(segs, d, k) THEN "new"
    ELSE IF Last(segs).gear = Row(d, k).CurrentGear - 1 THEN "append"
    ELSE "resplit"

\* Lines 83-103.
RevStep(segs, d, k) ==
    CASE RevBranch(segs, d, k) = "skip"    -> segs
      [] RevBranch(segs, d, k) = "new"     -> Append(segs, NewRevSegment(Row(d, k)))
      [] RevBranch(segs, d, k) = "append"  ->
            [segs EXCEPT ![Len(segs)].time     = Append(@, Row(d, k).Time),
                         ![Len(segs)].revmatch = Append(@, Row(d, k).RevMatch)]
      [] RevBranch(segs, d, k) = "resplit" -> Append(segs, NewRevSegment(Row(d, k)))

(***************************************************************************)
(* graph.py: colours, plotting, legend.                                    *)
(***************************************************************************)
gear_colors ==
    [g \in 1..5 |->
        CASE g = 1 -> "#E74C3C" [] g = 2 -> "#F39C12" [] g = 3 -> "#2ECC71"
          [] g = 4 -> "#3498DB" [] g = 5 -> "#9B59B6"]

\* gear_colors.get(key, '#000000')
GearColor(key) ==
    IF key \in DOMAIN gear_colors THEN gear_colors[key] ELSE "#000000"

\* Lines 106-119: one line per segment, RPM first.
PlotLines(rs, vs) ==
    [j \in 1..Len(rs) |->
        [x |-> rs[j].time, y |-> rs[j].rpm, color |-> GearColor(rs[j].gear),
         linestyle |-> "-", zorder |-> 1]]
    \o
    [j \in 1..Len(vs) |->
        [x |-> vs[j].time, y |-> vs[j].revmatch, color |-> GearColor(vs[j].gear),
         linestyle |-> "--", zorder |-> 2]]

SegmentKeys(segs) == {segs[j].gear : j \in 1..Len(segs)}

\* Variant of the definition below: the legend is built from the RPM segments alone.
AllGearsRpmOnly(rs, vs) == Sorted(SegmentKeys(rs))

\* Line 125.
AllGears(rs, vs) == Sorted(SegmentKeys(rs) \cup SegmentKeys(vs))

\* Lines 127-140.
LegendElements(gs, vs) ==
    [j \in 1..Len(gs) |->
        IF gs[j] \in SegmentKeys(vs)
        THEN << [color |-> GearColor(gs[j]), linestyle |-> "-"],
                [color |-> GearColor(gs[j]), linestyle |-> "--"] >>
        ELSE << [color |-> GearColor(gs[j]), linestyle |-> "-"] >>]

\* Line 143.
GearLabels(gs) == [j \in 1..Len(gs) |-> "Gear " \o ToString(gs[j])]

(***************************************************************************)
(* Specification of graph.py, lines 31-148.                                *)
(***************************************************************************)
Idle == <<>>

Init ==
    /\ pc = "read_csv"
    /\ df = <<>>
    /\ i = 0
    /\ stdout = <<>>
    /\ rpm_segments = <<>>
    /\ revmatch_segments = <<>>
    /\ rev_branch = "none"
    /\ lines = <<>>
    /\ all_gears = <<>>
    /\ legend_elements = <<>>
    /\ gear_labels = <<>>
    /\ config_file = None /\ min_rpm = None /\ max_rpm = None /\ ylim = None
    /\ actual = Idle /\ groups = Idle /\ plots = Idle /\ fits = Idle

\* Line 31.
ReadCsv ==
    /\ pc = "read_csv"
    /\ \E d \in Recordings : df' = d
    /\ pc' = "loop"
    /\ UNCHANGED <<i, stdout, gvars, cvars, rvars>>

\* Lines 53-103: one iteration of the loop.
LoopStep ==
    /\ pc = "loop"
    /\ i < Len(df)
    /\ rpm_segments' = RpmStep(rpm_segments, df, i)
    /\ revmatch_segments' = RevStep(revmatch_segments, df, i)
    /\ rev_branch' = RevBranch(revmatch_segments, df, i)
    /\ i' = i + 1
    /\ UNCHANGED <<pc, df, stdout, lines, all_gears, legend_elements,
                   gear_labels, cvars, rvars>>

\* Lines 106-119.
PlotSegments ==
    /\ pc = "loop"
    /\ i = Len(df)
    /\ lines' = PlotLines(rpm_segments, revmatch_segments)
    /\ pc' = "legend"
    /\ UNCHANGED <<df, i, stdout, rpm_segments, revmatch_segments, rev_branch,
                   all_gears, legend_elements, gear_labels, cvars, rvars>>

\* Lines 124-148.
BuildLegend ==
    /\ pc = "legend"
    /\ all_gears' = AllGears(rpm_segments, revmatch_segments)
    /\ legend_elements' =
          LegendElements(AllGears(rpm_segments, revmatch_segments), revmatch_segments)
    /\ gear_labels' = GearLabels(AllGears(rpm_segments, revmatch_segments))
    /\ pc' = "done"
    /\ UNCHANGED <<df, i, stdout, rpm_segments, revmatch_segments, rev_branch,
                   lines, cvars, rvars>>

Next == ReadCsv \/ LoopStep \/ PlotSegments \/ BuildLegend

Spec == Init /\ [][Next]_vars

(***************************************************************************)
(* Properties of the segmentation loop and the legend (graph.py).          *)
(***************************************************************************)
RECURSIVE RpmPoints(_)
\* The (time, rpm) points of a list of RPM segments, in segment order.
RpmPoints(segs) ==
    IF segs = <<>> THEN <<>>
    ELSE RpmPoints(SubSeq(segs, 1, Len(segs) - 1))
         \o [p \in 1..Len(Last(segs).time) |->
                <<Last(segs).time[p], Last(segs).rpm[p]>>]

\* The first n (Time, RPM) pairs of the input.
InputPoints(d, n) == [k \in 1..n |-> <<d[k].Time, d[k].RPM>>]

GearAt(k) == Row(df, k).CurrentGear

\* C1: after the loop has processed all samples (and after each iteration,
\* for the samples processed so far), the RPM segments' points concatenated
\* in segment order are exactly the input (Time, RPM) sequence.
C1_RpmSegmentsPartitionInput ==
    /\ \A j \in 1..Len(rpm_segments) :
          Len(rpm_segments[j].time) = Len(rpm_segments[j].rpm)
    /\ RpmPoints(rpm_segments) = InputPoints(df, i)
    /\ pc \in {"legend", "done"} =>
          RpmPoints(rpm_segments) = InputPoints(df, Len(df))

C1_Witness ==
    /\ pc = "done"
    /\ Len(df) >= 4
    /\ Len(rpm_segments) >= 2
    /\ \E j \in 1..Len(rpm_segments) : Len(rpm_segments[j].time) >= 2

\* Positions <<segment, point>> of the RevMatch points that carry time t.
RevPositions(t) ==
    {<<j, p>> \in (1..Len(revmatch_segments)) \X (1..MaxLen + 1) :
        /\ p <= Len(revmatch_segments[j].time)
        /\ revmatch_segments[j].time[p] = t}

\* C2: every RevMatch point comes from a processed sample with gear > 1 and
\* revmatch # -1; a sample with gear <= 1 or revmatch = -1 is in no RevMatch
\* segment; a sample is in at most one RevMatch segment.
C2_RevMatchPointsAreValidSamples ==
    /\ \A j \in 1..Len(revmatch_segments) :
          LET s == revmatch_segments[j] IN
          /\ Len(s.time) = Len(s.revmatch)
          /\ \A p \in 1..Len(s.time) :
                \E k \in 0..i - 1 :
                   /\ Row(df, k).Time = s.time[p]
                   /\ Row(df, k).RevMatch = s.revmatch[p]
                   /\ Row(df, k).CurrentGear > 1
                   /\ Row(df, k).RevMatch # -1
    /\ \A k \in 0..Len(df) - 1 :
          LET n == Cardinality(RevPositions(Row(df, k).Time)) IN
          /\ n <= 1
          /\ (Row(df, k).CurrentGear <= 1 \/ Row(df, k).RevMatch = -1) => n = 0
          /\ k >= i => n = 0

C2_Witness ==
    /\ pc = "done"
    /\ revmatch_segments # <<>>
    /\ \E k \in 0..Len(df) - 1 :
          Row(df, k).CurrentGear <= 1 /\ Row(df, k).RevMatch # -1
    /\ \E k \in 0..Len(df) - 1 :
          Row(df, k).CurrentGear > 1 /\ Row(df, k).RevMatch = -1

GearChangeAt(k) == k > 0 /\ GearAt(k) # GearAt(k - 1)

\* C3: among the processed samples a new RPM segment is opened at sample 0
\* and at exactly the samples whose gear differs from the previous one; each
\* segment's key is the gear of all its samples, adjacent keys differ, and
\* the number of segments is the number of gear changes plus one; gears
\* [1,1,2,2,1] give keys [1,2,1] with lengths [2,2,1].
C3_RpmSegmentOpensExactlyOnGearChange ==
    i >= 1 =>
      /\ {rpm_segments[j].time[1] : j \in 1..Len(rpm_segments)}
            = {Row(df, k).Time : k \in {k \in 0..i - 1 : k = 0 \/ GearChangeAt(k)}}
      /\ Len(rpm_segments) = 1 + Cardinality({k \in 0..i - 1 : GearChangeAt(k)})
      /\ \A j \in 1..Len(rpm_segments) : \A p \in 1..Len(rpm_segments[j].time) :
            \A k \in 0..i - 1 :
               Row(df, k).Time = rpm_segments[j].time[p]
                  => GearAt(k) = rpm_segments[j].gear
      /\ \A j \in 1..Len(rpm_segments) - 1 :
            rpm_segments[j].gear # rpm_segments[j + 1].gear
      /\ ( /\ i = 5
           /\ [k \in 1..Len(df) |-> df[k].CurrentGear] = <<1, 1, 2, 2, 1>> )
         => /\ [j \in 1..Len(rpm_segments) |-> rpm_segments[j].gear] = <<1, 2, 1>>
            /\ [j \in 1..Len(rpm_segments) |-> Len(rpm_segments[j].time)]
                  = <<2, 2, 1>>

C3_Witness ==
    /\ pc = "done"
    /\ [k \in 1..Len(df) |-> df[k].CurrentGear] = <<1, 1, 2, 2, 1>>
    /\ Len(rpm_segments) = 3

\* gear > 1 AND revmatch # -1 for processed sample k.
IsValidSample(k) == Row(df, k).CurrentGear > 1 /\ Row(df, k).RevMatch # -1

\* First indices of the maximal runs of valid same-gear samples below n.
RunStarts(n) ==
    {k \in 0..n - 1 :
        /\ IsValidSample(k)
        /\ k = 0 \/ ~IsValidSample(k - 1) \/ GearAt(k - 1) # GearAt(k)}

\* Last index of the run that starts at s, among the samples below n.
RunEnd(s, n) ==
    CHOOSE e \in s..n - 1 :
        /\ \A k \in s..e : IsValidSample(k) /\ GearAt(k) = GearAt(s)
        /\ e = n - 1 \/ ~IsValidSample(e + 1) \/ GearAt(e + 1) # GearAt(s)

MaximalRuns(n) ==
    LET st == Sorted(RunStarts(n)) IN
    [j \in 1..Len(st) |->
        [time     |-> [p \in 1..RunEnd(st[j], n) - st[j] + 1 |->
                          Row(df, st[j] + p - 1).Time],
         revmatch |-> [p \in 1..RunEnd(st[j], n) - st[j] + 1 |->
                          Row(df, st[j] + p - 1).RevMatch],
         gear     |-> GearAt(st[j]) - 1]]

\* C4: the RevMatch segments are, in order, exactly the maximal runs of
\* index-consecutive processed samples that satisfy gear > 1 and
\* revmatch # -1 and share one gear, keyed by gear - 1 with the run's
\* (time, revmatch) pairs in input order; (gear, revmatch) =
\* [(2,5000),(2,5200),(3,-1),(3,6000)] gives key 1 with two points and key 2
\* with one point.
C4_RevMatchSegmentsAreMaximalRuns ==
    /\ revmatch_segments = MaximalRuns(i)
    /\ ( /\ i = 4
         /\ [k \in 1..Len(df) |-> <<df[k].CurrentGear, df[k].RevMatch>>]
               = << <<2, 5000>>, <<2, 5200>>, <<3, -1>>, <<3, 6000>> >> )
       => /\ [j \in 1..Len(revmatch_segments) |-> revmatch_segments[j].gear]
                = <<1, 2>>
          /\ revmatch_segments[1].revmatch = <<5000, 5200>>
          /\ revmatch_segments[1].time = <<df[1].Time, df[2].Time>>
          /\ revmatch_segments[2].revmatch = <<6000>>
          /\ revmatch_segments[2].time = <<df[4].Time>>

C4_Witness ==
    /\ pc = "done"
    /\ [k \in 1..Len(df) |-> <<df[k].CurrentGear, df[k].RevMatch>>]
          = << <<2, 5000>>, <<2, 5200>>, <<3, -1>>, <<3, 6000>> >>
    /\ Len(revmatch_segments) = 2

\* The label text of a gear key.
ExpectedLabel(k) ==
    CASE k = 0 -> "Gear 0" [] k = 1 -> "Gear 1" [] k = 2 -> "Gear 2"
      [] k = 3 -> "Gear 3" [] k = 4 -> "Gear 4" [] k = 5 -> "Gear 5"
      [] OTHER -> "?"

\* C5: the legend has exactly one entry per distinct gear key of
\* rpm_segments and revmatch_segments, in ascending key order, labelled
\* "Gear {key}"; each entry has a solid handle and has a dashed handle as
\* well exactly when the key is a RevMatch segment key.
C5_LegendOneEntryPerGear ==
    pc = "done" =>
      LET rk == {rpm_segments[j].gear : j \in 1..Len(rpm_segments)}
          vk == {revmatch_segments[j].gear : j \in 1..Len(revmatch_segments)}
      IN
      /\ Len(all_gears) = Cardinality(rk \cup vk)
      /\ Len(legend_elements) = Len(all_gears)
      /\ Len(gear_labels) = Len(all_gears)
      /\ {all_gears[j] : j \in 1..Len(all_gears)} = rk \cup vk
      /\ \A j \in 1..Len(all_gears) - 1 : all_gears[j] < all_gears[j + 1]
      /\ \A j \in 1..Len(all_gears) :
            /\ gear_labels[j] = ExpectedLabel(all_gears[j])
            /\ legend_elements[j][1].linestyle = "-"
            /\ Len(legend_elements[j]) \in {1, 2}
            /\ Len(legend_elements[j]) = 2 <=> all_gears[j] \in vk
            /\ Len(legend_elements[j]) = 2 => legend_elements[j][2].linestyle = "--"

C5_Witness ==
    /\ pc = "done"
    /\ \E j \in 1..Len(legend_elements) : Len(legend_elements[j]) = 2
    /\ \E j \in 1..Len(legend_elements) : Len(legend_elements[j]) = 1
    /\ \E a \in 1..Len(rpm_segments) : \E b \in 1..Len(revmatch_segments) :
          rpm_segments[a].gear = revmatch_segments[b].gear
    /\ \E b \in 1..Len(revmatch_segments) :
          \A a \in 1..Len(rpm_segments) :
             rpm_segments[a].gear # revmatch_segments[b].gear

\* C9: the final else branch of the RevMatch segmentation never executes:
\* whenever the sample about to be processed is valid and does not satisfy
\* the line-87 condition, the last RevMatch segment's key is its gear - 1.
C9_ResplitBranchUnreachable ==
    /\ rev_branch # "resplit"
    /\ ( /\ pc = "loop"
         /\ i < Len(df)
         /\ Row(df, i).CurrentGear > 1
         /\ Row(df, i).RevMatch # -1
         /\ ~NeedNewRev(revmatch_segments, df, i) )
       => /\ revmatch_segments # <<>>
          /\ Last(revmatch_segments).gear = Row(df, i).CurrentGear - 1

C9_Witness ==
    /\ rev_branch = "append"
    /\ Len(revmatch_segments) >= 2

(***************************************************************************)
(* Config loader (graph.py lines 6-28, innefficiency.py lines 6-27) and    *)
(* the y-axis limits (graph.py lines 159-165).                             *)
(* A line of config.txt is a sequence of characters, as readlines()        *)
(* returns it (the line terminator included when present).                 *)
(***************************************************************************)
\* Most lines config.txt holds.
MaxConfigLines == 3

ConfigLinePool ==
    { <<"1", "0", "0", "0", "\n">>,
      <<" ", "7", "0", "0", "0", " ", "\n">>,
      <<"6", "5", "0", "0">>,
      <<"-", "5", "\n">>,
      <<"\n">>,
      <<"1", ",", "2", "\n">>,
      <<"r", "p", "m", "\n">>,
      <<"7", ".", "5", "\n">> }

\* exists = FALSE: open() raises FileNotFoundError.
ConfigFiles ==
    {[exists |-> FALSE, lines |-> <<>>]}
    \cup {[exists |-> TRUE, lines |-> ls] :
             ls \in SeqsUpTo(ConfigLinePool, MaxConfigLines)}

IsSpace(c) == c \in {" ", "\n", "\t", "\r"}

RECURSIVE LStrip(_)
LStrip(s) == IF s # <<>> /\ IsSpace(Head(s)) THEN LStrip(Tail(s)) ELSE s

RECURSIVE RStrip(_)
RStrip(s) ==
    IF s # <<>> /\ IsSpace(Last(s)) THEN RStrip(SubSeq(s, 1, Len(s) - 1)) ELSE s

\* str.strip()
Strip(s) == LStrip(RStrip(s))

HasComma(s) == \E j \in 1..Len(s) : s[j] = ","

RECURSIVE ConfigLines(_)
\* Line 11.
ConfigLines(ls) ==
    IF ls = <<>> THEN <<>>
    ELSE IF ~HasComma(Strip(Head(ls))) /\ Strip(Head(ls)) # <<>>
         THEN <<Strip(Head(ls))>> \o ConfigLines(Tail(ls))
         ELSE ConfigLines(Tail(ls))

Digits == {"0", "1", "2", "3", "4", "5", "6", "7", "8", "9"}

DigitValue(c) ==
    CASE c = "0" -> 0 [] c = "1" -> 1 [] c = "2" -> 2 [] c = "3" -> 3
      [] c = "4" -> 4 [] c = "5" -> 5 [] c = "6" -> 6 [] c = "7" -> 7
      [] c = "8" -> 8 [] c = "9" -> 9

RECURSIVE DigitsValue(_)
DigitsValue(s) ==
    IF s = <<>> THEN 0
    ELSE 10 * DigitsValue(SubSeq(s, 1, Len(s) - 1)) + DigitValue(Last(s))

\* int(str): surrounding whitespace, an optional sign, decimal digits;
\* anything else is a ValueError (ok = FALSE).  Exact for the characters
\* that occur in ConfigLinePool (no "_" digit separators, no non-ASCII digits).
ParseInt(str) ==
    LET s    == Strip(str)
        sign == s # <<>> /\ Head(s) \in {"-", "+"}
        body == IF sign THEN Tail(s) ELSE s
    IN IF body # <<>> /\ \A j \in 1..Len(body) : body[j] \in Digits
       THEN [ok |-> TRUE,
             value |-> IF sign /\ Head(s) = "-" THEN 0 - DigitsValue(body)
                       ELSE DigitsValue(body)]
       ELSE [ok |-> FALSE, value |-> 0]

\* A printed line is the tuple of its text and the values formatted into it.
WarnNotEnoughLines ==
    <<"Warning: config.txt doesn't have enough valid lines, using auto-scale">>
WarnNotFound == <<"Warning: config.txt not found, using auto-scale">>
WarnInvalid  == <<"Warning: Invalid RPM values in config.txt, using auto-scale">>

\* Lines 7-20: the body of the try block; exc is the exception it raises.
TryBlock(file) ==
    IF ~file.exists
    THEN [min_rpm |-> None, max_rpm |-> None, exc |-> "FileNotFoundError",
          out |-> <<>>]
    ELSE LET cl == ConfigLines(file.lines) IN
         IF Len(cl) >= 2
         THEN IF ~ParseInt(cl[1]).ok
              THEN [min_rpm |-> None, max_rpm |-> None, exc |-> "ValueError",
                    out |-> <<>>]
              ELSE IF ~ParseInt(cl[2]).ok
              THEN [min_rpm |-> <<ParseInt(cl[1]).value>>, max_rpm |-> None,
                    exc |-> "ValueError", out |-> <<>>]
              ELSE [min_rpm |-> <<ParseInt(cl[1]).value>>,
                    max_rpm |-> <<ParseInt(cl[2]).value>>, exc |-> "none",
                    out |-> << <<"Using RPM limits from config.txt:",
                                 ParseInt(cl[1]).value, ParseInt(cl[2]).value>> >>]
         ELSE [min_rpm |-> None, max_rpm |-> None, exc |-> "none",
               out |-> <<WarnNotEnoughLines>>]

\* Lines 21-24.
ExceptFileNotFound(r) ==
    [min_rpm |-> None, max_rpm |-> None, exc |-> "none",
     out |-> Append(r.out, WarnNotFound)]

\* Variant of the definition below: the handler resets max_rpm only.
ExceptValueErrorKeepsMin(r) ==
    [min_rpm |-> r.min_rpm, max_rpm |-> None, exc |-> "none",
     out |-> Append(r.out, WarnInvalid)]

\* Lines 25-28.
ExceptValueError(r) ==
    [min_rpm |-> None, max_rpm |-> None, exc |-> "none",
     out |-> Append(r.out, WarnInvalid)]

\* Lines 6-28: the try statement with its two handlers.
TryExcept(file) ==
    LET r == TryBlock(file) IN
    CASE r.exc = "FileNotFoundError" -> ExceptFileNotFound(r)
      [] r.exc = "ValueError"        -> ExceptValueError(r)
      [] OTHER                       -> r

InitConfig ==
    /\ pc = "load_config"
    /\ config_file \in ConfigFiles
    /\ min_rpm = None /\ max_rpm = None /\ ylim = None
    /\ stdout = <<>>
    /\ df = <<>> /\ i = 0
    /\ rpm_segments = <<>> /\ revmatch_segments = <<>> /\ rev_branch = "none"
    /\ lines = <<>> /\ all_gears = <<>> /\ legend_elements = <<>>
    /\ gear_labels = <<>>
    /\ actual = Idle /\ groups = Idle /\ plots = Idle /\ fits = Idle

\* Lines 6-28.
LoadConfig ==
    /\ pc = "load_config"
    /\ min_rpm' = TryExcept(config_file).min_rpm
    /\ max_rpm' = TryExcept(config_file).max_rpm
    /\ stdout' = stdout \o TryExcept(config_file).out
    /\ pc' = IF TryExcept(config_file).exc = "none" THEN "ylim" ELSE "aborted"
    /\ UNCHANGED <<df, i, gvars, config_file, ylim, rvars>>

\* Lines 160-165.
SetYLimits ==
    /\ pc = "ylim"
    /\ IF min_rpm # None /\ max_rpm # None
       THEN /\ ylim' = [auto |-> FALSE, bottom |-> min_rpm[1], top |-> max_rpm[1]]
            /\ stdout' = Append(stdout,
                  <<"Y-axis set to:", min_rpm[1], max_rpm[1]>>)
       ELSE /\ ylim' = [auto |-> TRUE]
            /\ stdout' = Append(stdout,
                  <<"Y-axis auto-scaled (config.txt not available or invalid)">>)
    /\ pc' = "done"
    /\ UNCHANGED <<df, i, gvars, config_file, min_rpm, max_rpm, rvars>>

NextConfig == LoadConfig \/ SetYLimits

SpecConfig == InitConfig /\ [][NextConfig]_vars

\* C8: after config loading min_rpm and max_rpm are both integers, only when
\* the file exists, has at least two non-blank comma-free lines and the first
\* two parse as integers, or both unset; file not found, fewer than two
\* qualifying lines and non-integer content each leave both unset, print
\* their own warning, do not abort, and lead to the auto-scaled y axis.
C8_ConfigBothOrNeither ==
    pc # "load_config" =>
      LET exists == config_file.exists
          cl     == IF exists THEN ConfigLines(config_file.lines) ELSE <<>>
          enough == Len(cl) >= 2
          parses == enough /\ ParseInt(cl[1]).ok /\ ParseInt(cl[2]).ok
      IN
      /\ pc \in {"ylim", "done"}
      /\ min_rpm = None <=> max_rpm = None
      /\ min_rpm # None <=> (exists /\ enough /\ parses)
      /\ min_rpm # None =>
            /\ min_rpm = <<ParseInt(cl[1]).value>>
            /\ max_rpm = <<ParseInt(cl[2]).value>>
            /\ min_rpm[1] \in Int /\ max_rpm[1] \in Int
      /\ ~exists => stdout[1] = WarnNotFound
      /\ (exists /\ ~enough) => stdout[1] = WarnNotEnoughLines
      /\ (exists /\ enough /\ ~parses) => stdout[1] = WarnInvalid
      /\ Cardinality({WarnNotFound, WarnNotEnoughLines, WarnInvalid}) = 3
      /\ pc = "done" =>
            /\ Len(stdout) = 2
            /\ min_rpm = None <=> ylim.auto
            /\ min_rpm # None =>
                  ylim = [auto |-> FALSE, bottom |-> min_rpm[1], top |-> max_rpm[1]]

\* The second line fails to parse after the first one parsed.
C8_Witness ==
    /\ pc = "done"
    /\ config_file.exists
    /\ Len(ConfigLines(config_file.lines)) >= 2
    /\ ParseInt(ConfigLines(config_file.lines)[1]).ok
    /\ ~ParseInt(ConfigLines(config_file.lines)[2]).ok
    /\ ylim.auto

(***************************************************************************)
(* innefficiency.py lines 30-53: theoretical RPM, group by gear, and the   *)
(* per-gear fit-and-plot loop.                                             *)
(***************************************************************************)
\* Longest recording explored for innefficiency.py.
MaxRatioLen == 3

\* Lines 33-37: the gear-ratio table, each ratio as <<numerator, denominator>>.
gears ==
    [g \in 1..5 |->
        CASE g = 1 -> <<37, 11>> [] g = 2 -> <<41, 22>> [] g = 3 -> <<37, 28>>
          [] g = 4 -> <<35, 34>> [] g = 5 -> <<32, 39>>]

\* Line 32.
finaldrive == <<61, 15>>

RatioSamples ==
    [CurrentGear : {1, 2, 4, 6}, RPM : {0, 2000, 3000}, MPH : {20, 30}]

RatioRecordings == UNION {[1..m -> RatioSamples] : m \in 1..MaxRatioLen}

\* Variant of the definition below: an unknown gear gets the ratio 1.
RatioLookupDefault(g) ==
    IF g \in DOMAIN gears THEN [ok |-> TRUE, ratio |-> gears[g]]
    ELSE [ok |-> TRUE, ratio |-> <<1, 1>>]

\* gears[row['CurrentGear']] at line 42: ok = FALSE is the KeyError.
RatioLookup(g) ==
    IF g \in DOMAIN gears THEN [ok |-> TRUE, ratio |-> gears[g]]
    ELSE [ok |-> FALSE, ratio |-> <<0, 1>>]

\* Line 42, for one row: 1056 * MPH * finaldrive * ratio / 74.38402, with
\* the quotient truncated to a whole rpm (wheelCircumference as 74384/1000).
TheoreticalRPM(row) ==
    LET r == RatioLookup(row.CurrentGear).ratio IN
    (((1056 * row.MPH * finaldrive[1] * r[1]) \div (finaldrive[2] * r[2])) * 1000)
        \div 74384

\* Line 42: the new RevMatch column; ok = FALSE when a lookup fails.
ApplyTheoretical(d) ==
    IF \E k \in 1..Len(d) : ~RatioLookup(d[k].CurrentGear).ok
    THEN [ok |-> FALSE, frame |-> <<>>]
    ELSE [ok |-> TRUE,
          frame |-> [k \in 1..Len(d) |->
             [CurrentGear |-> d[k].CurrentGear, RPM |-> d[k].RPM,
              MPH |-> d[k].MPH, RevMatch |-> TheoreticalRPM(d[k])]]]

RowsOfGear(d, g) == SelectSeq(d, LAMBDA row : row.CurrentGear = g)

\* Line 43: groupby('CurrentGear'), a mapping from each gear present to its rows.
GroupBy(d) ==
    [g \in {d[k].CurrentGear : k \in 1..Len(d)} |-> RowsOfGear(d, g)]

RECURSIVE InsertByMPH(_, _)
InsertByMPH(row, s) ==
    IF s = <<>> THEN <<row>>
    ELSE IF Last(s).MPH <= row.MPH THEN Append(s, row)
    ELSE Append(InsertByMPH(row, SubSeq(s, 1, Len(s) - 1)), Last(s))

RECURSIVE SortByMPH(_)
\* Line 47: sort_values(by='MPH'), rows of equal MPH kept in their order.
SortByMPH(s) ==
    IF s = <<>> THEN <<>>
    ELSE InsertByMPH(Last(s), SortByMPH(SubSeq(s, 1, Len(s) - 1)))

RECURSIVE Sum(_)
Sum(s) == IF s = <<>> THEN 0 ELSE Head(s) + Sum(Tail(s))

\* np.polyfit(x, y, 1): the least-squares line.  With fewer than two distinct
\* x the system has rank 1: numpy issues a RankWarning and still returns
\* coefficients (the minimum-norm solution), it does not raise.
PolyFit(x, y) ==
    LET n    == Len(x)
        sx   == Sum(x)
        sy   == Sum(y)
        sxx  == Sum([k \in 1..n |-> x[k] * x[k]])
        sxy  == Sum([k \in 1..n |-> x[k] * y[k]])
        full == Cardinality({x[k] : k \in 1..n}) >= 2
    IN [rank |-> IF full THEN 2 ELSE 1,
        RankWarning |-> ~full,
        slope |-> IF full THEN <<n * sxy - sx * sy, n * sxx - sx * sx>>
                  ELSE <<sxy, sxx + n>>]

\* How np.polyfit(x, y, 1) can end.  polyfit divides each column of the
\* Vandermonde matrix by its norm; when every x is 0 the x column becomes
\* 0/0 = NaN, and lstsq on NaN input either raises LinAlgError ("SVD did not
\* converge") or returns NaN coefficients, depending on the LAPACK build.
PolyFitOutcomes(x) ==
    IF \A k \in 1..Len(x) : x[k] = 0 THEN {"LinAlgError", "returns"}
    ELSE {"returns"}

\* Variant of the definition below: the loop visits the gears present, in order.
GroupKeyOfPresent(grp, k) == Sorted(DOMAIN grp)[k + 1]

\* Line 46: the key passed to get_group in iteration k.
GroupKey(grp, k) == k + 1

\* Lines 47-53 for one group: the theoretical line, then the fitted line.
GroupPlots(key, grp) ==
    LET g == SortByMPH(grp) IN
    << [gear |-> key, color |-> "red",
        x |-> [k \in 1..Len(g) |-> g[k].RevMatch],
        y |-> [k \in 1..Len(g) |-> g[k].MPH]],
       [gear |-> key, color |-> "blue",
        x |-> Sorted({g[k].RPM : k \in 1..Len(g)}),
        y |-> PolyFit([k \in 1..Len(g) |-> g[k].RPM],
                      [k \in 1..Len(g) |-> g[k].MPH]).slope] >>

InitRatio ==
    /\ pc = "read_csv"
    /\ df = <<>> /\ i = 0 /\ stdout = <<>>
    /\ rpm_segments = <<>> /\ revmatch_segments = <<>> /\ rev_branch = "none"
    /\ lines = <<>> /\ all_gears = <<>> /\ legend_elements = <<>>
    /\ gear_labels = <<>>
    /\ config_file = None /\ min_rpm = None /\ max_rpm = None /\ ylim = None
    /\ actual = <<>> /\ groups = <<>> /\ plots = <<>> /\ fits = <<>>

\* Line 30.
RatioReadCsv ==
    /\ pc = "read_csv"
    /\ \E d \in RatioRecordings : df' = d
    /\ pc' = "apply"
    /\ UNCHANGED <<i, stdout, gvars, cvars, rvars>>

\* Lines 42-43.
ApplyAndGroup ==
    /\ pc = "apply"
    /\ IF ApplyTheoretical(df).ok
       THEN /\ actual' = ApplyTheoretical(df).frame
            /\ groups' = GroupBy(ApplyTheoretical(df).frame)
            /\ pc' = "group_loop"
       ELSE /\ pc' = "KeyError_gears"
            /\ UNCHANGED <<actual, groups>>
    /\ UNCHANGED <<df, i, stdout, gvars, cvars, plots, fits>>

\* Lines 45-53: one iteration of the loop over range(len(actual)).
GroupStep ==
    /\ pc = "group_loop"
    /\ i < Cardinality(DOMAIN groups)
    /\ IF GroupKey(groups, i) \in DOMAIN groups
       THEN LET key == GroupKey(groups, i)
                g   == SortByMPH(groups[key])
                x   == [k \in 1..Len(g) |-> g[k].RPM]
                y   == [k \in 1..Len(g) |-> g[k].MPH]
            IN \E outcome \in PolyFitOutcomes(x) :
                  /\ fits' = Append(fits,
                        [gear |-> key, outcome |-> outcome, fit |-> PolyFit(x, y)])
                  /\ IF outcome = "returns"
                     THEN /\ plots' = plots \o GroupPlots(key, groups[key])
                          /\ i' = i + 1
                          /\ pc' = pc
                     ELSE \* line 51 has drawn the theoretical line already
                          /\ plots' = Append(plots, GroupPlots(key, groups[key])[1])
                          /\ i' = i
                          /\ pc' = "LinAlgError"
       ELSE /\ pc' = "KeyError_get_group"
            /\ UNCHANGED <<i, plots, fits>>
    /\ UNCHANGED <<df, stdout, gvars, cvars, actual, groups>>

\* The loop is exhausted; the script ends.
RatioFinish ==
    /\ pc = "group_loop"
    /\ i = Cardinality(DOMAIN groups)
    /\ pc' = "done"
    /\ UNCHANGED <<df, i, stdout, gvars, cvars, rvars>>

NextRatio == RatioReadCsv \/ ApplyAndGroup \/ GroupStep \/ RatioFinish

SpecRatio == InitRatio /\ [][NextRatio]_vars

RatioEnded ==
    pc \in {"done", "KeyError_gears", "KeyError_get_group", "LinAlgError"}

GearsPresent == {df[k].CurrentGear : k \in 1..Len(df)}

DistinctRPM(g) == {df[k].RPM : k \in {k \in 1..Len(df) : df[k].CurrentGear = g}}

FittedGears == {fits[j].gear : j \in 1..Len(fits)}

PlottedGears == {plots[j].gear : j \in 1..Len(plots)}

\* C6: a gear group with fewer than 2 distinct RPM values is skipped, no fit
\* being attempted for it and the run not crashing, and every other gear
\* group is fitted and rendered.
C6_DegenerateGroupSkipped ==
    /\ \A g \in FittedGears : Cardinality(DistinctRPM(g)) >= 2
    /\ pc # "LinAlgError"
    /\ pc = "done" =>
          \A g \in GearsPresent :
             Cardinality(DistinctRPM(g)) >= 2 => g \in FittedGears

\* C7: if some sample's gear is not a key of the gear-ratio table, the run
\* ends at the theoretical-RPM computation with a lookup failure before any
\* group is plotted and no ratio is substituted; the colour mapper maps a
\* key outside 1..5 to the default colour.
C7_UnknownGearIsLookupFailure ==
    /\ (pc # "read_csv" /\ \E g \in GearsPresent : g \notin 1..5) =>
          /\ pc \in {"apply", "KeyError_gears"}
          /\ actual = <<>> /\ groups = <<>> /\ plots = <<>> /\ fits = <<>>
    /\ pc = "KeyError_gears" => \E g \in GearsPresent : g \notin 1..5
    /\ \A k \in 1..Len(actual) :
          /\ actual[k].CurrentGear \in 1..5
          /\ actual[k].RevMatch =
                (((1056 * actual[k].MPH * 61 * gears[actual[k].CurrentGear][1])
                    \div (15 * gears[actual[k].CurrentGear][2])) * 1000) \div 74384
    /\ \A key \in {0, 6, 7} : GearColor(key) = "#000000"

\* The unknown gear comes after a sample whose gear is in the table.
C7_Witness ==
    /\ pc = "KeyError_gears"
    /\ Len(df) >= 2
    /\ df[1].CurrentGear \in 1..5
    /\ df[Len(df)].CurrentGear \notin 1..5

\* The first index in 1..N that is not a gear present (0 when there is none).
FirstMissing ==
    LET N == Cardinality(GearsPresent)
        M == {k \in 1..N : k \notin GearsPresent}
    IN IF M = {} THEN 0 ELSE CHOOSE k \in M : \A m \in M : k <= m

====
